---- MODULE Spec2Model ----
(***************************************************************************)
(* Model of src/extension/components/ReactPerfDevtool.js: the panel that   *)
(* polls the inspected window's __REACT_PERF_DEVTOOL_GLOBAL_STORE__ through *)
(* chrome.devtools.inspectedWindow.eval, merges the measures into the       *)
(* module-level store and resets the external buffer.                       *)
(*                                                                          *)
(* JavaScript runs every handler to completion, so each handler (a timer    *)
(* tick, an eval callback, a lifecycle method, a button handler) is one     *)
(* action.  An eval is asynchronous: the query is first evaluated in the    *)
(* inspected window (Evaluate) and its callback runs later (the *Callback   *)
(* actions); queries in flight are kept in a bag and may complete in any    *)
(* order.                                                                   *)
(*                                                                          *)
(* Spec explores every behaviour of at most MaxSteps steps, with the timer, *)
(* the channel, the user and the observed application free to act at any    *)
(* step.  LiveSpec is the steady poll loop of a mounted panel, unbounded in  *)
(* length, for the liveness of collection.                                  *)
(***************************************************************************)
EXTENDS Naturals, Sequences, FiniteSets, Bags

\* ---------------------------------------------------------------- bounds
MaxSteps == 13      \* steps of a behaviour of Spec
MaxEvents == 2      \* events the observed application pushes
MaxMounts == 2      \* component instances created

Insts == 1..MaxMounts

VARIABLES
    store,      \* module-level `store` (line 14): sequence of measures
    ext,        \* __REACT_PERF_DEVTOOL_GLOBAL_STORE__ in the inspected window
    pushed,     \* events pushed so far; event k is the k-th one pushed
    cur,        \* the latest component instance (0: none constructed yet)
    mounted,    \* whether instance cur is mounted
    state,      \* this.state of every instance
    timer,      \* this.timer of every instance: "null", "active", "cleared"
    inflight,   \* bag of eval queries in flight
    chart,      \* props of the last drawChart call
    reloading,  \* window.location.reload() of the panel page is pending
    reloads,    \* calls of chrome.devtools.inspectedWindow.reload() so far
    erased,     \* events a merge's reset removed from ext while not in store
    userOps,    \* uses of the clear and reload buttons so far
    steps,      \* steps taken so far in a behaviour of Spec
    mergedLen,  \* sum of the sizes of the batches merged since the last clear
    solo        \* the fetch cycles started since the panel page loaded: "none",
                \* "many", or the progress of the only one ("started", then
                \* "rawOk" or "rawFailed" once its rawMeasures callback ran)

vars == <<store, ext, pushed, cur, mounted, state, timer, inflight, chart,
          reloading, reloads, erased, userOps, steps, mergedLen, solo>>

\* ------------------------------------------------------- JavaScript values
\* A value is [type, json, val]: a number n is Num(n), an array is Arr(s),
\* and the text JSON.stringify produces is a string that remembers what it
\* encodes.  Strict equality compares type and content.
Undefined == [type |-> "undefined", json |-> "", val |-> <<>>]

Num(n) == [type |-> "number", json |-> "", val |-> <<n>>]

Arr(s) == [type |-> "array", json |-> "", val |-> s]

JSONstringify(v) == [type |-> "string", json |-> v.type, val |-> v.val]

JSONparse(t) == [type |-> t.json, json |-> "", val |-> t.val]

StrictEquals_Loose(a, b) == a.val = b.val

StrictEquals(a, b) == a = b

\* totalTimeSpent of the measure of event e, in thousandths of a millisecond:
\* 1.5 ms, 2.5 ms, 0.0 ms, then 0.004 ms more for each later event
TimeOf(e) ==
    CASE e = 1 -> 1500
      [] e = 2 -> 2500
      [] e = 3 -> 0
      [] OTHER -> 4 * (e - 3)

RECURSIVE SumTime(_)
SumTime(s) == IF s = <<>> THEN 0 ELSE TimeOf(Head(s)) + SumTime(Tail(s))

\* n.toFixed(2) of n thousandths: the decimal text with two decimals, held
\* as its number of hundredths, rounded to the nearest
ToFixed2(n) ==
    [type |-> "string", json |-> "fixed2", val |-> <<(n + 5) \div 10>>]

TotalTime_LastOnly(s) ==
    ToFixed2(IF s = <<>> THEN 0 ELSE TimeOf(s[Len(s)]))

\* store.reduce((acc, comp) => acc + comp.totalTimeSpent, 0).toFixed(2)
TotalTime(s) == ToFixed2(SumTime(s))

\* ------------------------------------------------------------ the queries
EmptyExt == [length |-> 0, measures |-> <<>>, rawMeasures |-> <<>>]

Query(q, i, by) ==
    [q |-> q, inst |-> i, phase |-> "sent", res |-> Undefined, err |-> FALSE,
     by |-> by]

\* the value the query expression evaluates to in the inspected window
QueryResult(q) ==
    CASE q = "measuresLength" -> JSONstringify(Num(ext.length))
      [] q = "measures" -> JSONstringify(Arr(ext.measures))
      [] q = "rawMeasures" -> JSONstringify(Arr(ext.rawMeasures))
      [] OTHER -> Undefined

\* ------------------------------------------------------------- component
InitialState ==
    [perfData |-> <<>>, totalTime |-> Num(0), pendingEvents |-> Num(0),
     rawMeasures |-> <<>>, loading |-> FALSE, hasError |-> FALSE,
     showChart |-> FALSE]

Live(i) == mounted /\ i = cur

Patch(s, p) == [f \in DOMAIN s |-> IF f \in DOMAIN p THEN p[f] ELSE s[f]]

\* this.setState(p) of instance i: React applies it to a mounted component
\* and ignores it (with a warning) once the component is unmounted.
SetState(i, p) ==
    [state EXCEPT ![i] = IF Live(i) THEN Patch(state[i], p) ELSE state[i]]

NoChart == [totalTime |-> Num(0), rawMeasures |-> <<>>, totalComponents |-> 0]

Init ==
    /\ store = <<>>
    /\ ext = EmptyExt
    /\ pushed = 0
    /\ cur = 0
    /\ mounted = FALSE
    /\ state = [i \in Insts |-> InitialState]
    /\ timer = [i \in Insts |-> "null"]
    /\ inflight = EmptyBag
    /\ chart = NoChart
    /\ reloading = FALSE
    /\ reloads = 0
    /\ erased = {}
    /\ userOps = 0
    /\ steps = 0
    /\ mergedLen = 0
    /\ solo = "none"

\* the observed application records one more event in its buffer
Push ==
    /\ pushed < MaxEvents
    /\ pushed' = pushed + 1
    /\ ext' = [length |-> ext.length + 1,
               measures |-> Append(ext.measures, pushed + 1),
               rawMeasures |-> Append(ext.rawMeasures, pushed + 1)]
    /\ UNCHANGED <<store, cur, mounted, state, timer, inflight, chart,
                   reloading, reloads, erased, userOps, mergedLen,
                   solo>>

Issue(bag, m) == bag (+) SetToBag({m})

Take(bag, m) == bag (-) SetToBag({m})

\* chrome.devtools.inspectedWindow.reload(): the inspected page starts afresh
reloadInspectedWindow ==
    /\ reloads' = reloads + 1
    /\ ext' = EmptyExt

componentWillMount_AlwaysReloads == reloadInspectedWindow

componentWillMount ==
    IF Len(store) = 0
      THEN reloadInspectedWindow
      ELSE UNCHANGED <<reloads, ext>>

\* constructor, componentWillMount and componentDidMount of a new instance
Mount ==
    /\ ~mounted
    /\ cur < MaxMounts
    /\ cur' = cur + 1
    /\ mounted' = TRUE
    /\ state' = [state EXCEPT
                   ![cur + 1] = Patch(InitialState,
                                      [loading |-> TRUE, showChart |-> TRUE])]
    /\ timer' = [timer EXCEPT ![cur + 1] = "active"]
    /\ componentWillMount
    /\ UNCHANGED <<store, pushed, inflight, chart, reloading, erased,
                   userOps, mergedLen,
                   solo>>

componentWillUnmount_KeepsTimer ==
    /\ mounted
    /\ mounted' = FALSE
    /\ UNCHANGED <<store, ext, pushed, cur, state, timer, inflight, chart,
                   reloading, reloads, erased, userOps, mergedLen,
                   solo>>

componentWillUnmount ==
    /\ mounted
    /\ mounted' = FALSE
    /\ timer' = [timer EXCEPT
                   ![cur] = IF timer[cur] # "null" THEN "cleared" ELSE "null"]
    /\ UNCHANGED <<store, ext, pushed, cur, state, inflight, chart, reloading,
                   reloads, erased, userOps, mergedLen,
                   solo>>

\* one firing of the interval timer of instance i: getMeasuresLength
getMeasuresLength(i) ==
    /\ timer[i] = "active"
    /\ inflight' = Issue(inflight, Query("measuresLength", i, "none"))
    /\ UNCHANGED <<store, ext, pushed, cur, mounted, state, timer, chart,
                   reloading, reloads, erased, userOps, mergedLen,
                   solo>>

\* the inspected window evaluates a query
Evaluate(m) ==
    /\ BagIn(m, inflight)
    /\ m.phase = "sent"
    /\ IF m.q = "clear"
         THEN /\ ext' = EmptyExt
              /\ inflight' = Take(inflight, m)
              /\ erased' =
                   IF m.by = "merge"
                     THEN erased \cup
                          {ext.measures[k] : k \in
                             {j \in 1..Len(ext.measures) :
                                \A n \in 1..Len(store) :
                                   store[n] # ext.measures[j]}}
                     ELSE erased
         ELSE /\ inflight' =
                   Issue(Take(inflight, m),
                         [m EXCEPT !.phase = "done", !.res = QueryResult(m.q)])
              /\ UNCHANGED <<ext, erased>>
    /\ UNCHANGED <<store, pushed, cur, mounted, state, timer, chart, reloading,
                   reloads, userOps, mergedLen,
                   solo>>

\* the evaluation fails: the callback gets an error, a clear has no effect
EvaluateError(m) ==
    /\ BagIn(m, inflight)
    /\ m.phase = "sent"
    /\ inflight' =
         IF m.q = "clear"
           THEN Take(inflight, m)
           ELSE Issue(Take(inflight, m),
                      [m EXCEPT !.phase = "done", !.err = TRUE])
    /\ UNCHANGED <<store, ext, pushed, cur, mounted, state, timer, chart,
                   reloading, reloads, erased, userOps, mergedLen,
                   solo>>

Failed_Never(m) == FALSE

\* if (err) in the callbacks of evaluate
Failed(m) == m.err

setErrorState_KeepsLoading(i) == SetState(i, [hasError |-> TRUE])

setErrorState(i) == SetState(i, [hasError |-> TRUE, loading |-> FALSE])

shouldRenderMeasures_Always(i) == TRUE

\* shouldRenderMeasures: if (this.state.perfData.length === 0)
shouldRenderMeasures(i) == Len(state[i].perfData) = 0

\* the callback of the measuresLength query, with updateEventsCount,
\* shouldRenderMeasures, getMeasures and getRawMeasures
LengthCallback(m) ==
    /\ BagIn(m, inflight)
    /\ m.phase = "done"
    /\ m.q = "measuresLength"
    /\ IF Failed(m) \/ StrictEquals(m.res, Num(0))
         THEN /\ state' = setErrorState(m.inst)
              /\ inflight' = Take(inflight, m)
              /\ solo' = solo
         ELSE /\ state' = SetState(m.inst, [pendingEvents |-> JSONparse(m.res),
                                            loading |-> FALSE])
              /\ IF shouldRenderMeasures(m.inst)
                   THEN /\ inflight' =
                             Issue(Issue(Take(inflight, m),
                                         Query("rawMeasures", m.inst, "none")),
                                   Query("measures", m.inst, "none"))
                        /\ solo' = IF solo = "none" THEN "started" ELSE "many"
                   ELSE /\ inflight' = Take(inflight, m)
                        /\ solo' = solo
    /\ UNCHANGED <<store, ext, pushed, cur, mounted, timer, chart, reloading,
                   reloads, erased, userOps, mergedLen>>

\* the callback of the rawMeasures query
RawMeasuresCallback(m) ==
    /\ BagIn(m, inflight)
    /\ m.phase = "done"
    /\ m.q = "rawMeasures"
    /\ state' = IF Failed(m)
                  THEN setErrorState(m.inst)
                  ELSE SetState(m.inst, [rawMeasures |-> JSONparse(m.res).val])
    /\ inflight' = Take(inflight, m)
    /\ solo' = IF solo = "started"
                 THEN IF Failed(m) THEN "rawFailed" ELSE "rawOk"
                 ELSE solo
    /\ UNCHANGED <<store, ext, pushed, cur, mounted, timer, chart, reloading,
                   reloads, erased, userOps, mergedLen>>

Concat_Overwrites(s, measures) == measures

clearMeasures_Nothing(bag, i, by) == bag

\* clearMeasures: this.evaluate(queries['clear']), called from merge or user
clearMeasures(bag, i, by) == Issue(bag, Query("clear", i, by))

\* store = store.concat(measures)
Concat(s, measures) == s \o measures

\* the callback of the measures query, with updateMeasures and clearMeasures
MeasuresCallback(m) ==
    /\ BagIn(m, inflight)
    /\ m.phase = "done"
    /\ m.q = "measures"
    /\ IF Failed(m)
         THEN /\ state' = setErrorState(m.inst)
              /\ inflight' = Take(inflight, m)
              /\ UNCHANGED <<store, chart, mergedLen>>
         ELSE LET measures == JSONparse(m.res).val
                  merged == Concat(store, measures)
              IN  /\ store' = merged
                  /\ chart' = [totalTime |-> TotalTime(merged),
                               rawMeasures |-> state[m.inst].rawMeasures,
                               totalComponents |-> Len(merged)]
                  /\ state' = SetState(m.inst, [perfData |-> merged,
                                                totalTime |-> TotalTime(merged)])
                  /\ inflight' = clearMeasures(Take(inflight, m), m.inst,
                                               "merge")
                  /\ mergedLen' = mergedLen + Len(measures)
    /\ UNCHANGED <<ext, pushed, cur, mounted, timer, reloading, reloads,
                   erased, userOps, solo>>

\* the Buttons are rendered only while the panel is not loading
ButtonsShown == mounted /\ ~state[cur].loading

ClearedState_KeepsPending ==
    [perfData |-> <<>>, totalTime |-> Num(0), rawMeasures |-> <<>>,
     showChart |-> FALSE]

\* the state clear() sets
ClearedState ==
    [perfData |-> <<>>, totalTime |-> Num(0), rawMeasures |-> <<>>,
     pendingEvents |-> Num(0), showChart |-> FALSE]

\* the user's clear
clear ==
    /\ ButtonsShown
    /\ store' = <<>>
    /\ state' = SetState(cur, ClearedState)
    /\ inflight' = clearMeasures(inflight, cur, "user")
    /\ timer' = [timer EXCEPT
                   ![cur] = IF timer[cur] # "null" THEN "cleared" ELSE "null"]
    /\ userOps' = userOps + 1
    /\ mergedLen' = 0
    /\ UNCHANGED <<ext, pushed, cur, mounted, chart, reloading, reloads,
                   erased, solo>>

\* the user's reload: clear(), browserReload(), setState, reloadInspectedWindow
reload ==
    /\ ButtonsShown
    /\ store' = <<>>
    /\ state' = SetState(cur, [f \in DOMAIN ClearedState \cup {"loading"} |->
                                 IF f = "loading" THEN TRUE
                                                  ELSE ClearedState[f]])
    /\ inflight' = clearMeasures(inflight, cur, "user")
    /\ timer' = [timer EXCEPT
                   ![cur] = IF timer[cur] # "null" THEN "cleared" ELSE "null"]
    /\ userOps' = userOps + 1
    /\ mergedLen' = 0
    /\ reloading' = TRUE
    /\ reloadInspectedWindow
    /\ UNCHANGED <<pushed, cur, mounted, chart, erased, solo>>

\* window.location.reload() takes effect: the panel page starts afresh, its
\* module state, timers and pending callbacks are gone
PanelReloaded ==
    /\ reloading
    /\ reloading' = FALSE
    /\ store' = <<>>
    /\ mounted' = FALSE
    /\ timer' = [i \in Insts |-> IF timer[i] = "active" THEN "cleared"
                                                        ELSE timer[i]]
    /\ inflight' = [m \in {x \in DOMAIN inflight :
                             x.q = "clear" /\ x.phase = "sent"} |-> inflight[m]]
    /\ chart' = NoChart
    /\ mergedLen' = 0
    /\ solo' = "none"
    /\ UNCHANGED <<ext, pushed, cur, state, reloads, erased, userOps>>

Messages == DOMAIN inflight

\* a behaviour of Spec takes at most MaxSteps steps
Budget ==
    /\ steps < MaxSteps
    /\ steps' = steps + 1

Next ==
    \/ Budget /\ Push
    \/ Budget /\ Mount
    \/ Budget /\ componentWillUnmount
    \/ Budget /\ \E i \in Insts : getMeasuresLength(i)
    \/ Budget /\ \E m \in Messages : Evaluate(m)
    \/ Budget /\ \E m \in Messages : EvaluateError(m)
    \/ Budget /\ \E m \in Messages : LengthCallback(m)
    \/ Budget /\ \E m \in Messages : RawMeasuresCallback(m)
    \/ Budget /\ \E m \in Messages : MeasuresCallback(m)
    \/ Budget /\ clear
    \/ Budget /\ reload
    \/ Budget /\ PanelReloaded

Spec == Init /\ [][Next]_vars

\* ------------------------------------------------ the steady poll loop
\* The panel stays mounted, the user presses nothing and every evaluation
\* succeeds; a tick fires once the previous cycle's queries have completed,
\* and the observed application pushes only between two poll cycles.
LivePush ==
    /\ inflight = EmptyBag
    /\ Push
    /\ UNCHANGED steps

LiveMount ==
    /\ cur = 0
    /\ Mount
    /\ UNCHANGED steps

LiveTick ==
    /\ mounted
    /\ timer[cur] = "active"
    /\ inflight = EmptyBag
    /\ getMeasuresLength(cur)
    /\ UNCHANGED steps

LiveEvaluate ==
    /\ \E m \in Messages : Evaluate(m)
    /\ UNCHANGED steps

LiveLengthCallback ==
    /\ \E m \in Messages : LengthCallback(m)
    /\ UNCHANGED steps

LiveRawMeasuresCallback ==
    /\ \E m \in Messages : RawMeasuresCallback(m)
    /\ UNCHANGED steps

LiveMeasuresCallback ==
    /\ \E m \in Messages : MeasuresCallback(m)
    /\ UNCHANGED steps

LiveNext ==
    \/ LivePush
    \/ LiveMount
    \/ LiveTick
    \/ LiveEvaluate
    \/ LiveLengthCallback
    \/ LiveRawMeasuresCallback
    \/ LiveMeasuresCallback

\* the timer keeps firing, the channel answers every query and delivers
\* every callback
LiveSpec ==
    /\ Init
    /\ [][LiveNext]_vars
    /\ WF_vars(LiveMount)
    /\ WF_vars(LiveTick)
    /\ WF_vars(LiveEvaluate)
    /\ WF_vars(LiveLengthCallback)
    /\ WF_vars(LiveRawMeasuresCallback)
    /\ WF_vars(LiveMeasuresCallback)

\* ================================================================ claims
InStore(e) == \E k \in 1..Len(store) : store[k] = e

InBuffer(e) == \E k \in 1..Len(ext.measures) : ext.measures[k] = e

\* the step runs the callback of the completed query m
Delivered(m) ==
    /\ BagIn(m, inflight)
    /\ m.phase = "done"
    /\ CopiesIn(m, inflight') = CopiesIn(m, inflight) - 1
    /\ reloading' = reloading

\* the step makes one use of the clear or reload button
UserStep == userOps' # userOps

\* the step is a timer tick: it issues a length query
TickStep ==
    \E i \in Insts :
       CopiesIn(Query("measuresLength", i, "none"), inflight')
          > CopiesIn(Query("measuresLength", i, "none"), inflight)

ActiveTimers == {i \in Insts : timer[i] = "active"}

\* C1: every event of the external buffer is appended to the store at most
\* once between two clears: the store never holds the same event twice.
C1_AtMostOnce ==
    \A i, j \in 1..Len(store) : i # j => store[i] # store[j]

\* C2: as long as the user has not cleared, a reset issued by a merge never
\* erases from the external buffer an event that is not in the store.
C2_NoLoss == userOps = 0 => erased = {}

\* C3: while the panel is mounted with its timer active and the channel
\* answers every query, every event in the external buffer is eventually
\* appended to the store.
C3_EventuallyCollected ==
    \A e \in 1..MaxEvents :
        (mounted /\ timer[cur] = "active" /\ InBuffer(e)) ~> InStore(e)

\* C4: the store is the in-order concatenation of the batches merged since
\* the last clear: its length is the sum of the batch sizes, a merge appends
\* the delivered batch, in order, behind the unchanged old store, and only a
\* merge or an emptying of the store changes it.
C4_StoreIsConcatenation ==
    /\ [](Len(store) = mergedLen)
    /\ [][\A m \in Messages :
            (Delivered(m) /\ m.q = "measures" /\ ~m.err)
               => store' = store \o m.res.val]_vars
    /\ [][store' # store =>
            \/ store' = <<>>
            \/ \E m \in Messages :
                 Delivered(m) /\ m.q = "measures" /\ ~m.err]_vars

C4_Witness ==
    /\ Len(store) = 2
    /\ store[1] = store[2]
    /\ mergedLen = 2

\* C5: clear leaves the store empty, the view model with perfData empty,
\* totalTime 0, rawMeasures empty and pendingEvents 0, and issues the
\* external clear query.
C5_ClearResets ==
    [][UserStep =>
         /\ store' = <<>>
         /\ state'[cur].perfData = <<>>
         /\ state'[cur].totalTime = Num(0)
         /\ state'[cur].rawMeasures = <<>>
         /\ state'[cur].pendingEvents = Num(0)
         /\ \E m \in DOMAIN inflight' :
              /\ m.q = "clear"
              /\ m.phase = "sent"
              /\ CopiesIn(m, inflight') = CopiesIn(m, inflight) + 1]_vars

C5_Witness ==
    /\ userOps = 1
    /\ mounted
    /\ chart.totalComponents > 0
    /\ store = <<>>
    /\ state[cur].perfData = <<>>
    /\ state[cur].totalTime = Num(0)

\* C6: when the length query's callback receives an error while the timer is
\* active, hasError becomes true and loading false, the store and perfData
\* are unchanged, the callback issues no query, and the timer stays active.
C6_LengthError ==
    [][\A m \in Messages :
         (Delivered(m) /\ m.q = "measuresLength" /\ m.err
            /\ timer[m.inst] = "active")
           => /\ state'[m.inst].hasError
              /\ ~state'[m.inst].loading
              /\ store' = store
              /\ state'[m.inst].perfData = state[m.inst].perfData
              /\ inflight' = inflight (-) SetToBag({m})
              /\ timer'[m.inst] = "active"]_vars

C6_Witness ==
    /\ mounted
    /\ timer[cur] = "active"
    /\ state[cur].hasError
    /\ ~state[cur].loading
    /\ inflight = EmptyBag

\* C7: a poll whose length query succeeds clears the error flag.
C7_ErrorCleared ==
    [][\A m \in Messages :
         (Delivered(m) /\ m.q = "measuresLength" /\ ~m.err /\ Live(m.inst))
           => ~state'[m.inst].hasError]_vars

\* C8: a callback that resolves after its panel was unmounted or cleared
\* changes neither the store nor the view model and issues no query.
C8_StaleCallbackIgnored ==
    [][\A m \in Messages :
         (Delivered(m) /\ timer[m.inst] # "active")
           => /\ store' = store
              /\ state' = state
              /\ inflight' = inflight (-) SetToBag({m})]_vars

\* C9: mount starts exactly one timer; unmount and clear cancel it; a tick
\* issues its length query only from the active timer of the mounted panel.
C9_TimerLifecycle ==
    [][/\ (~mounted /\ mounted') => ActiveTimers' = {cur'}
       /\ ActiveTimers' # ActiveTimers => ActiveTimers' \in {{}, {cur'}}
       /\ (ActiveTimers' # {} /\ ActiveTimers = {}) => (~mounted /\ mounted')
       /\ (UserStep \/ (mounted /\ ~mounted')) => ActiveTimers' = {}
       /\ TickStep => (mounted /\ ActiveTimers = {cur})]_vars

C9_Witness ==
    /\ cur = 2
    /\ mounted
    /\ timer[1] = "cleared"
    /\ timer[2] = "active"
    /\ BagIn(Query("measuresLength", 1, "none"), inflight)
    /\ BagIn(Query("measuresLength", 2, "none"), inflight)

\* C10: the inspected window is reloaded at mount exactly when the store is
\* empty at that moment, and otherwise only by the user's reload: no timer
\* tick and no query callback reloads it.
C10_ReloadOneShot ==
    [][/\ cur' # cur => (reloads' = reloads + 1 <=> Len(store) = 0)
       /\ cur' # cur => reloads' \in {reloads, reloads + 1}
       /\ reloads' # reloads =>
            \/ cur' # cur
            \/ (UserStep /\ reloading' /\ reloads' = reloads + 1)]_vars

C10_Witness ==
    /\ cur = 2
    /\ mounted
    /\ Len(store) > 0
    /\ reloads = 1
    /\ userOps = 0

\* the step runs updateMeasures for the measures query m
MergeStep(m) == Delivered(m) /\ m.q = "measures" /\ ~m.err

RECURSIVE Thousandths(_, _)
Thousandths(s, k) ==
    IF k = 0 THEN 0 ELSE TimeOf(s[k]) + Thousandths(s, k - 1)

\* the number of queries named q in flight
InFlight(bag, q) ==
    BagCardinality([m \in {x \in DOMAIN bag : x.q = q} |-> bag[m]])

C12_MergeThenReset ==
    [][/\ \A m \in Messages :
            MergeStep(m)
              => /\ InFlight(inflight', "clear")
                      = InFlight(inflight, "clear") + 1
                 /\ \A q \in {"measuresLength", "measures", "rawMeasures"} :
                        InFlight(inflight', q) = InFlight(Take(inflight, m), q)
       /\ InFlight(inflight', "clear") > InFlight(inflight, "clear")
            => (UserStep \/ \E m \in Messages : MergeStep(m))]_vars

C12_Witness ==
    /\ store # <<>>
    /\ \E m \in Messages : m.q = "clear" /\ m.by = "merge" /\ m.phase = "sent"

\* C13: when the measures query's callback receives an error while the
\* timer is active, nothing is merged and no reset is issued: the store,
\* perfData and the external buffer are unchanged, no query is issued,
\* hasError becomes true and loading false, and the timer stays active.
C13_MeasuresError ==
    [][\A m \in Messages :
         (Delivered(m) /\ m.q = "measures" /\ m.err
            /\ timer[m.inst] = "active")
           => /\ store' = store
              /\ state'[m.inst].perfData = state[m.inst].perfData
              /\ ext' = ext
              /\ inflight' = inflight (-) SetToBag({m})
              /\ state'[m.inst].hasError
              /\ ~state'[m.inst].loading
              /\ timer'[m.inst] = "active"]_vars

C13_Witness ==
    /\ mounted
    /\ timer[cur] = "active"
    /\ state[cur].hasError
    /\ ~state[cur].loading
    /\ state[cur].rawMeasures # <<>>
    /\ chart = NoChart
    /\ ext.measures # <<>>
    /\ InFlight(inflight, "measures") = 0

\* a fetch or the reset of a merge is still in flight
CycleInFlight ==
    \/ InFlight(inflight, "measures") > 0
    \/ InFlight(inflight, "rawMeasures") > 0
    \/ \E m \in Messages : m.q = "clear" /\ m.by = "merge"

\* C14: poll cycles never overlap: a timer tick never starts a new length
\* query while the measures fetch or the reset of an earlier tick is still
\* in flight.
C14_NoOverlap == [][TickStep => ~CycleInFlight]_vars

\* the step issues a measures or a rawMeasures query
FetchStep ==
    \/ InFlight(inflight', "measures") > InFlight(inflight, "measures")
    \/ InFlight(inflight', "rawMeasures") > InFlight(inflight, "rawMeasures")

\* C15: measures and rawMeasures queries are issued only by the callback of
\* a length query that returned without error and reported a nonzero count;
\* a length response of zero starts no fetch.
C15_FetchOnlyOnNonzeroLength ==
    [][FetchStep
         => \E m \in Messages :
               /\ Delivered(m)
               /\ m.q = "measuresLength"
               /\ ~m.err
               /\ m.res.val # <<0>>]_vars

\* C16: a length query that succeeds and reports zero events is not treated
\* as an error: its callback leaves hasError false, on the first poll after
\* mount as on every later one.
C16_ZeroLengthNoError ==
    [][\A m \in Messages :
         (Delivered(m) /\ m.q = "measuresLength" /\ ~m.err
            /\ m.res.val = <<0>> /\ Live(m.inst) /\ ~state[m.inst].hasError)
           => ~state'[m.inst].hasError]_vars

C16_Witness ==
    /\ mounted
    /\ userOps = 0
    /\ ext.length = 0
    /\ ~state[cur].loading
    /\ ~state[cur].hasError
    /\ state[cur].pendingEvents = Num(0)

\* the number of measures and rawMeasures queries of instance i in flight
FetchesOf(bag, i) ==
    BagCardinality([m \in {x \in DOMAIN bag :
                             x.inst = i /\ x.q \in {"measures", "rawMeasures"}}
                      |-> bag[m]])

C18_ViewMirrorsStore ==
    mounted
      => /\ state[cur].perfData = store
         /\ state[cur].totalTime.val =
              <<(Thousandths(store, Len(store)) + 5) \div 10>>

\* C19: the raw measures drawn in the chart at a merge are those delivered
\* by the rawMeasures query of the same cycle, in whichever order the two
\* callbacks run: where the merging cycle is the only one started, so that
\* the rawMeasures query in flight is its own, the chart shows that query's
\* result and not the initial empty list.
C19_ChartUsesCycleRaw ==
    [][\A m \in Messages :
         (MergeStep(m) /\ solo = "started")
           => \A r \in Messages :
                 (r.q = "rawMeasures" /\ r.phase = "done" /\ ~r.err)
                   => chart'.rawMeasures = JSONparse(r.res).val]_vars

\* C20: in a cycle whose rawMeasures query failed and set hasError, the
\* measures callback appends nothing to the store and issues no clear query.
C20_RawErrorNoMerge ==
    [][\A m \in Messages :
         (Delivered(m) /\ m.q = "measures" /\ solo = "rawFailed"
            /\ state[m.inst].hasError)
           => /\ store' = store
              /\ InFlight(inflight', "clear") = InFlight(inflight, "clear")]_vars

====
